---- MODULE Spec2Model ----
(***************************************************************************)
(* IndustrialSimulator (src/script.js): the glue between a render scene,   *)
(* a rigid-body world and the DOM controls.                                *)
(*                                                                         *)
(* The simulator object is modelled field by field.  Every method of the   *)
(* class is an operator from a simulator record to the simulator record    *)
(* the method leaves behind, so that a handler that calls other methods    *)
(* (reset calls pause and resetRobot, onKeyPress calls reset, ...) is the  *)
(* composition of their operators.  Every action is one DOM event, timer   *)
(* or animation-frame callback run to completion: the browser never        *)
(* interleaves two of them.                                                *)
(*                                                                         *)
(* The two libraries are black boxes.  Of a body only its height           *)
(* (position.y, metres) and its speed (in 0.01 m/s) are kept, of a mesh    *)
(* only its height; world.step moves every body of the world to any        *)
(* height and speed.  Library calls are taken to succeed when the library  *)
(* is loaded; a use of a library that is not loaded throws.                *)
(* Math.random() is taken at 0.5 where it gives the horizontal parts of    *)
(* an impulse, so that an impulse is vertical.                             *)
(*                                                                         *)
(* Units: times are in 1/60 s; speeds in 0.01 m/s, arrow lengths in        *)
(* 0.1 mm, energies in 0.0001 J; config.gravity, friction and restitution  *)
(* in tenths, the other settings in their own unit.  An angle in radians   *)
(* is held as a whole number of units of Math.PI / (180 * AngleScale) rad, *)
(* that is 1/AngleScale of a degree: the angles the program computes are   *)
(* rotation * Math.PI / 180 blended by factors of 0.05, and with           *)
(* AngleScale = 20^4 the first four blends of whole degrees are exact;     *)
(* later ones are rounded to the nearest unit.  A statistic formatted by   *)
(* toFixed(n) keeps the digits of the string as the integer value * 10^n,  *)
(* rounded as toFixed rounds (half away from zero).                        *)
(***************************************************************************)
EXTENDS Integers, Sequences, FiniteSets, TLC

VARIABLES
  hasTHREE,              \* typeof THREE !== 'undefined'
  hasCANNON,             \* typeof CANNON !== 'undefined'
  alerts,                \* alert dialogs shown so far
  initTimer,             \* the setTimeout of init(): "pending" or "fired"
  setupDone,             \* the setup steps of the init callback that completed
  scene,                 \* this.scene: the handles in the render scene, or NULL
  world,                 \* this.world: the handles in the physics world, or NULL
  objects,               \* this.objects
  vectors,               \* this.vectors
  isRunning,             \* this.isRunning
  deltaTime,             \* this.deltaTime
  simulationTime,        \* this.simulationTime
  frameCount,            \* this.frameCount
  config,                \* this.config
  robot,                 \* this.robot
  stats,                 \* this.stats
  showVelocityVectors,   \* this.showVelocityVectors
  showMomentumVectors,   \* this.showMomentumVectors
  event,                 \* the event whose handler ran last
  calls                  \* what that handler called, in order

vars == <<hasTHREE, hasCANNON, alerts, initTimer, setupDone, scene, world,
          objects, vectors, isRunning, deltaTime, simulationTime, frameCount,
          config, robot, stats, showVelocityVectors, showMomentumVectors,
          event, calls>>

-----------------------------------------------------------------------------
(* Bounds of the model *)

\* Spec: objects alive at once, animation frames of a run, and simulated time of a
\* run in 1/60 s
MaxObjects == 1
MaxFrames == 3
MaxSimTime == 2
\* SpecSpawn
SpawnObjects == 3
SpawnFrames == 2
\* SpecControls
ControlObjects == 1
ControlFrames == 2
ControlSimTime == 2
\* SpecLoop
LoopObjects == 1
LoopFrames == 21
LoopSimTime == 24
\* SpecStep
StepObjects == 1
StepFrames == 2
StepSimTime == 4
\* SpecRobot
RobotFrames == 2
RobotSimTime == 8
\* SpecInputs: also the speed, in 0.01 m/s, no click on the canvas goes beyond
InputsObjects == 1
InputsSpeed == 200

\* wall-clock durations a frame can measure, in 1/60 s
FrameDurations == {2}
\* what world.step can leave a body with
Heights == {1, 9}
Speeds == {0, 40}
\* values of the rotation slider, in degrees
Rotations == {45, -90}
\* values of the other sliders and number fields, in the unit of the setting
SliderValues ==
  [mass |-> {5, 8}, friction |-> {3}, gravity |-> {-98, -200}, restitution |-> {6},
   impulse |-> {10, 2}, angularVelocity |-> {2}, rotation |-> Rotations]
\* how the velocity of a clicked body lies to the impulse: along it or against it
Alignments == {1, -1}
\* values of Math.floor(Math.random() * 30 + 70)
Percents == {85}
\* keys of the keyboard
KeyCodes == {"Space", "KeyR", "KeyO", "KeyT", "KeyA"}

-----------------------------------------------------------------------------
(* Program constants *)

\* this.deltaTime = 1/60
NominalDeltaTime == 1
\* the 10 of this.frameCount % 10
VectorPeriod == 10
\* this.robot.currentAngle += angleDiff * 0.05, in percent
BlendPercent == 5
\* the units of an angle in one degree (Math.PI / 180 rad)
AngleScale == 160000
\* if (speed > 0.1), in 0.01 m/s
SpeedThreshold == 10
\* body.position.set(.., 8 + Math.random() * 5, ..)
SpawnHeight == 9
\* the impulse (.., 2, ..) of a spawn, in N s
SpawnImpulse == 2
\* a new THREE.Mesh sits at the origin
MeshOrigin == 0

NULL == {<<"null", 0>>}
GroundBody == <<"groundBody", 0>>
Body(k) == <<"body", k>>
Mesh(k) == <<"mesh", k>>
Arrow(k) == <<"arrow", k>>

\* JavaScript values of the statistics record: a number, or the string of toFixed
Number(v) == <<"number", v>>
FixedString(digits, v) == <<IF digits = 1 THEN "toFixed(1)" ELSE "toFixed(2)", v>>

\* a / b rounded to the nearest integer
RoundDiv(a, b) ==
  IF a >= 0 THEN (2 * a + b) \div (2 * b) ELSE -((2 * (-a) + b) \div (2 * b))

Range(f) == {f[i] : i \in DOMAIN f}

SetupSteps == <<"setupScene", "setupPhysics", "setupLighting", "setupGround",
                "setupRobot", "setupEventListeners", "startLoop",
                "hideLoadingScreen">>

-----------------------------------------------------------------------------
(* The simulator object *)

This ==
  [scene |-> scene, world |-> world, objects |-> objects, vectors |-> vectors,
   isRunning |-> isRunning, deltaTime |-> deltaTime,
   simulationTime |-> simulationTime, frameCount |-> frameCount,
   config |-> config, robot |-> robot, stats |-> stats,
   showVelocityVectors |-> showVelocityVectors,
   showMomentumVectors |-> showMomentumVectors,
   alerts |-> alerts, setupDone |-> setupDone, calls |-> <<>>]

Becomes(s) ==
  /\ scene' = s.scene
  /\ world' = s.world
  /\ objects' = s.objects
  /\ vectors' = s.vectors
  /\ isRunning' = s.isRunning
  /\ deltaTime' = s.deltaTime
  /\ simulationTime' = s.simulationTime
  /\ frameCount' = s.frameCount
  /\ config' = s.config
  /\ robot' = s.robot
  /\ stats' = s.stats
  /\ showVelocityVectors' = s.showVelocityVectors
  /\ showMomentumVectors' = s.showMomentumVectors
  /\ alerts' = s.alerts
  /\ setupDone' = s.setupDone
  /\ calls' = s.calls

Call(s, fn, arg) == [s EXCEPT !.calls = Append(@, <<fn, arg>>)]

ZeroStats ==
  [activeObjects |-> Number(0), collisionCount |-> Number(0),
   totalEnergy |-> Number(0), maxVelocity |-> Number(0),
   avgVelocity |-> Number(0), currentAngle |-> Number(0),
   angularAcceleration |-> Number(0), damageReduction |-> Number(0),
   trajectoryEfficiency |-> Number(0)]

-----------------------------------------------------------------------------
(* constructor, checkDependencies, init *)

\* checkDependencies(): one console error and one alert for the first missing
\* library; what it returns is read by nobody.
\* a check that goes on after the first missing library
checkDependencies_checksBoth(s, three, cannon) ==
  LET s1 == IF ~three THEN Call([s EXCEPT !.alerts = @ + 1], "alert", 1) ELSE s
  IN IF ~cannon THEN Call([s1 EXCEPT !.alerts = @ + 1], "alert", 2) ELSE s1

checkDependencies(s, three, cannon) ==
  IF ~three
    THEN Call([s EXCEPT !.alerts = @ + 1], "alert", 1)
    ELSE IF ~cannon
      THEN Call([s EXCEPT !.alerts = @ + 1], "alert", 2)
      ELSE s

\* The fields the constructor sets, before it calls init().
constructed ==
  [scene |-> NULL, world |-> NULL, objects |-> <<>>, vectors |-> <<>>,
   isRunning |-> FALSE, deltaTime |-> NominalDeltaTime, simulationTime |-> 0,
   frameCount |-> 0,
   config |-> [gravity |-> -98, restitution |-> 6, friction |-> 3, mass |-> 5,
               impulse |-> 10, angularVelocity |-> 2, rotation |-> 45],
   robot |-> [baseRotationY |-> 0, targetAngle |-> 0, currentAngle |-> 0,
              isActive |-> FALSE],
   stats |-> ZeroStats,
   showVelocityVectors |-> TRUE, showMomentumVectors |-> TRUE,
   alerts |-> 0, setupDone |-> <<>>, calls |-> <<>>]

\* init(): the loading screen, and the setup callback handed to setTimeout.  The
\* result of checkDependencies is not read.
init(s) == Call(Call(s, "init", 0), "setTimeout", 1000)

constructor(three, cannon) ==
  init(checkDependencies(Call(constructed, "checkDependencies", 0), three, cannon))

-----------------------------------------------------------------------------
(* play, pause, robot *)

play(s) == Call([s EXCEPT !.isRunning = TRUE], "play", 0)

\* a pause that also rewinds the clock
pause_rewinds(s) ==
  Call([s EXCEPT !.isRunning = FALSE, !.simulationTime = 0], "pause", 0)

pause(s) == Call([s EXCEPT !.isRunning = FALSE], "pause", 0)

toggleRobot(s) == Call([s EXCEPT !.robot.isActive = ~@], "toggleRobot", 0)

resetRobot(s) ==
  Call([s EXCEPT !.robot.currentAngle = 0,
                 !.robot.targetAngle = 0,
                 !.robot.isActive = FALSE], "resetRobot", 0)

\* (degrees * Math.PI) / 180, in units of Math.PI / (180 * AngleScale) rad
Radians(degrees) == degrees * AngleScale

\* (radians * 180 / Math.PI).toFixed(1): tenths of a degree
DegreesFixed1(angle) == FixedString(1, RoundDiv(angle * 10, AngleScale))

\* a blend factor of 1.5
Blend_overshoots(angleDiff) == RoundDiv(angleDiff * 3, 2)

\* angleDiff * 0.05
Blend(angleDiff) == RoundDiv(angleDiff * BlendPercent, 100)

updateRobot(s) ==
  IF ~s.robot.isActive THEN s
  ELSE
    LET target == Radians(s.config.rotation)
        angleDiff == target - s.robot.currentAngle
        current == s.robot.currentAngle + Blend(angleDiff)
    IN Call([s EXCEPT !.robot.targetAngle = target,
                      !.robot.currentAngle = current,
                      !.robot.baseRotationY = current,
                      !.stats.currentAngle = DegreesFixed1(current)],
            "updateRobot", current)

-----------------------------------------------------------------------------
(* spawning *)

\* body.applyImpulse(impulse, body.position) on a body at rest: the speed
\* impulse / mass gives it, in 0.01 m/s
ImpulseSpeed(impulse, mass) == RoundDiv(impulse * 100, mass)

\* The identity of a new body and mesh: one no live handle has.
FreshId(s) ==
  CHOOSE k \in 1..(Len(s.objects) + Cardinality(s.world) + Cardinality(s.scene) + 1) :
    /\ Body(k) \notin s.world
    /\ Mesh(k) \notin s.scene
    /\ \A i \in DOMAIN s.objects :
         s.objects[i].body # Body(k) /\ s.objects[i].mesh # Mesh(k)
    /\ \A j \in 1..(k - 1) :
         \/ Body(j) \in s.world
         \/ Mesh(j) \in s.scene
         \/ \E i \in DOMAIN s.objects :
              s.objects[i].body = Body(j) \/ s.objects[i].mesh = Mesh(j)

\* a spawn that leaves out this.scene.add(mesh)
addObject_noSceneAdd(s, type) ==
  LET k == FreshId(s)
      s1 == Call([s EXCEPT !.world = @ \cup {Body(k)}], "world.add", k)
      obj == [body |-> Body(k), mesh |-> Mesh(k), type |-> type,
              mass |-> s.config.mass,
              position |-> SpawnHeight,
              speed |-> ImpulseSpeed(SpawnImpulse, s.config.mass),
              meshPosition |-> MeshOrigin]
  IN Call([s1 EXCEPT !.objects = Append(@, obj),
                     !.stats.activeObjects = Number(@[2] + 1)], "applyImpulse", k)

\* a spawn that leaves out this.stats.activeObjects++
addObject_noCount(s, type) ==
  LET k == FreshId(s)
      s1 == Call([s EXCEPT !.world = @ \cup {Body(k)}], "world.add", k)
      s2 == Call([s1 EXCEPT !.scene = @ \cup {Mesh(k)}], "scene.add", k)
      obj == [body |-> Body(k), mesh |-> Mesh(k), type |-> type,
              mass |-> s.config.mass,
              position |-> SpawnHeight,
              speed |-> ImpulseSpeed(SpawnImpulse, s.config.mass),
              meshPosition |-> MeshOrigin]
  IN Call([s2 EXCEPT !.objects = Append(@, obj)], "applyImpulse", k)

\* addBox, addSphere and addCylinder differ in the shape, the geometry and the
\* type tag.
addObject(s, type) ==
  LET k == FreshId(s)
      s1 == Call([s EXCEPT !.world = @ \cup {Body(k)}], "world.add", k)
      s2 == Call([s1 EXCEPT !.scene = @ \cup {Mesh(k)}], "scene.add", k)
      obj == [body |-> Body(k), mesh |-> Mesh(k), type |-> type,
              mass |-> s.config.mass,
              position |-> SpawnHeight, speed |-> 0, meshPosition |-> MeshOrigin]
      s3 == [s2 EXCEPT !.objects = Append(@, obj),
                       !.stats.activeObjects = Number(@[2] + 1)]
  IN Call([s3 EXCEPT !.objects[Len(s3.objects)].speed =
                       ImpulseSpeed(SpawnImpulse, s.config.mass)],
          "applyImpulse", k)

addBox(s) == addObject(Call(s, "addBox", 0), "box")

addSphere(s) == addObject(Call(s, "addSphere", 0), "sphere")

addCylinder(s) == addObject(Call(s, "addCylinder", 0), "cylinder")

-----------------------------------------------------------------------------
(* the physics step and what is derived from it *)

\* world.step(dt): every body of the world moves to where the library puts it.
worldStep(s, phys) ==
  LET moved == [i \in DOMAIN s.objects |->
                  IF s.objects[i].body \in s.world
                    THEN [s.objects[i] EXCEPT !.position = phys[i].position,
                                              !.speed = phys[i].speed]
                    ELSE s.objects[i]]
  IN Call([s EXCEPT !.objects = moved], "world.step", s.deltaTime)

copyTransforms(s) ==
  [s EXCEPT !.objects = [i \in DOMAIN s.objects |->
                           [s.objects[i] EXCEPT !.meshPosition = s.objects[i].position]]]

updatePhysics(s, phys) ==
  IF s.world = NULL THEN s
  ELSE updateRobot(copyTransforms(worldStep(Call(s, "updatePhysics", 0), phys)))

\* The arrows updateVectors creates for objs, appended to acc.
RECURSIVE newVectors(_, _, _, _)
newVectors(objs, showVelocity, showMomentum, acc) ==
  IF objs = <<>> THEN acc
  ELSE
    LET obj == Head(objs)
        withVelocity ==
          IF obj.speed > SpeedThreshold /\ showVelocity
            THEN Append(acc, [arrow |-> Arrow(Len(acc) + 1), type |-> "velocity",
                              origin |-> obj.position, length |-> obj.speed * 50])
            ELSE acc
        withMomentum ==
          IF obj.speed > SpeedThreshold /\ showMomentum
            THEN Append(withVelocity,
                        [arrow |-> Arrow(Len(withVelocity) + 1), type |-> "momentum",
                         origin |-> obj.position,
                         length |-> obj.speed * obj.mass * 2])
            ELSE withVelocity
    IN newVectors(Tail(objs), showVelocity, showMomentum, withMomentum)

\* the loop that takes every arrow out of the scene, and the emptied list
RECURSIVE removeArrows(_, _)
removeArrows(s, vecs) ==
  IF vecs = <<>> THEN s
  ELSE removeArrows(Call([s EXCEPT !.scene = @ \ {Head(vecs).arrow}],
                         "scene.remove(arrow)", Head(vecs).arrow[2]),
                    Tail(vecs))

removeVectors(s) == [removeArrows(s, s.vectors) EXCEPT !.vectors = <<>>]

\* an update that leaves out this.vectors = []
updateVectors_appends(s) ==
  LET cleared == removeArrows(Call(s, "updateVectors", 0), s.vectors)
      created == newVectors(s.objects, s.showVelocityVectors,
                            s.showMomentumVectors, s.vectors)
  IN [cleared EXCEPT !.scene = @ \cup {created[i].arrow : i \in DOMAIN created},
                     !.vectors = created]

updateVectors(s) ==
  LET cleared == removeVectors(Call(s, "updateVectors", 0))
      created == newVectors(s.objects, s.showVelocityVectors,
                            s.showMomentumVectors, <<>>)
  IN [cleared EXCEPT !.scene = @ \cup {created[i].arrow : i \in DOMAIN created},
                     !.vectors = created]

RECURSIVE SumOver(_, _, _)
SumOver(objs, F(_), acc) ==
  IF objs = <<>> THEN acc ELSE SumOver(Tail(objs), F, acc + F(Head(objs)))

Abs(x) == IF x < 0 THEN -x ELSE x

\* twice the energy of an object, in 0.0001 J
Energy2(obj, gravity) ==
  obj.mass * obj.speed * obj.speed + 2000 * obj.mass * Abs(gravity) * obj.position

updateStatistics(s) ==
  IF Len(s.objects) = 0 THEN s
  ELSE
    LET speedOf(obj) == obj.speed
        energyOf(obj) == Energy2(obj, s.config.gravity)
        totalSpeed == SumOver(s.objects, speedOf, 0)
        maxSpeed == CHOOSE m \in {s.objects[i].speed : i \in DOMAIN s.objects} :
                      \A i \in DOMAIN s.objects : s.objects[i].speed <= m
        totalEnergy2 == SumOver(s.objects, energyOf, 0)
    IN [s EXCEPT !.stats.maxVelocity = FixedString(2, maxSpeed),
                 !.stats.avgVelocity =
                    FixedString(2, RoundDiv(totalSpeed, Len(s.objects))),
                 !.stats.totalEnergy = FixedString(2, RoundDiv(totalEnergy2, 200)),
                 !.stats.activeObjects = Number(Len(s.objects))]

\* updateUI(): the text of the time, FPS and delta labels, the statistics, and the
\* text of the analysis panel.
updateUI(s) == updateStatistics(Call(s, "updateUI", 0))

-----------------------------------------------------------------------------
(* reset, step, optimize, keyboard *)

\* a loop that leaves out this.world.remove(obj.body)
RECURSIVE removeObjects_sceneOnly(_, _)
removeObjects_sceneOnly(s, objs) ==
  IF objs = <<>> THEN s
  ELSE removeObjects_sceneOnly(
         Call([s EXCEPT !.scene = @ \ {Head(objs).mesh}], "scene.remove(mesh)",
              Head(objs).mesh[2]),
         Tail(objs))

RECURSIVE removeObjects(_, _)
removeObjects(s, objs) ==
  IF objs = <<>> THEN s
  ELSE
    LET obj == Head(objs)
        s1 == Call([s EXCEPT !.scene = @ \ {obj.mesh}], "scene.remove(mesh)",
                   obj.mesh[2])
        s2 == Call([s1 EXCEPT !.world = @ \ {obj.body}], "world.remove", obj.body[2])
    IN removeObjects(s2, Tail(objs))

\* a reset that leaves the arrows where they are
reset_keepsVectors(s) ==
  LET s1 == [pause(Call(s, "reset", 0)) EXCEPT !.simulationTime = 0]
      s2 == [removeObjects(s1, s1.objects) EXCEPT !.objects = <<>>]
  IN resetRobot([s2 EXCEPT !.stats = ZeroStats])

reset(s) ==
  LET s1 == [pause(Call(s, "reset", 0)) EXCEPT !.simulationTime = 0]
      s2 == [removeObjects(s1, s1.objects) EXCEPT !.objects = <<>>]
      s3 == removeVectors(s2)
      s4 == [s3 EXCEPT !.stats = ZeroStats]
  IN resetRobot(s4)

\* a step that does not look at this.isRunning
step_whileRunning(s, phys) ==
  LET s1 == updatePhysics(Call(s, "step", 0), phys)
  IN [s1 EXCEPT !.simulationTime = @ + s1.deltaTime]

step(s, phys) ==
  IF ~s.isRunning
    THEN LET s1 == updatePhysics(Call(s, "step", 0), phys)
         IN [s1 EXCEPT !.simulationTime = @ + s1.deltaTime]
    ELSE Call(s, "step", 0)

optimizeLayout(s, percent) ==
  Call([s EXCEPT !.stats.damageReduction = Number(percent)], "optimizeLayout", percent)

optimizeTrajectory(s, percent) ==
  Call([s EXCEPT !.stats.trajectoryEfficiency = Number(percent)],
       "optimizeTrajectory", percent)

\* a handler that does not look at event.ctrlKey
onKeyPress_ignoresCtrl(s, code, ctrlKey, percent) ==
  CASE code = "Space" -> IF s.isRunning THEN pause(s) ELSE play(s)
    [] code = "KeyR" -> reset(s)
    [] code = "KeyO" -> optimizeLayout(s, percent)
    [] code = "KeyT" -> optimizeTrajectory(s, percent)
    [] OTHER -> s

onKeyPress(s, code, ctrlKey, percent) ==
  CASE code = "Space" -> IF s.isRunning THEN pause(s) ELSE play(s)
    [] code = "KeyR" -> IF ctrlKey THEN reset(s) ELSE s
    [] code = "KeyO" -> IF ctrlKey THEN optimizeLayout(s, percent) ELSE s
    [] code = "KeyT" -> IF ctrlKey THEN optimizeTrajectory(s, percent) ELSE s
    [] OTHER -> s

\* the change handlers of the two checkboxes
changeVelocityVectors(s, checked) ==
  updateVectors([s EXCEPT !.showVelocityVectors = checked])

changeMomentumVectors(s, checked) ==
  updateVectors([s EXCEPT !.showMomentumVectors = checked])

\* the input handler of a slider and of its number field
sliderInput(s, prop, value) ==
  LET s1 == [s EXCEPT !.config[prop] = value]
  IN IF prop = "gravity" /\ s.world # NULL
       THEN Call(s1, "world.gravity.set", value)
       ELSE s1

\* onCanvasClick(event): while running, the ray of the click hits the mesh of
\* objects[hit], or nothing when hit = 0, and the body of that entry takes the
\* impulse (.., config.impulse, ..)
onCanvasClick(s, hit, alignment) ==
  LET s0 == Call(s, "onCanvasClick", hit)
  IN IF ~s.isRunning THEN s0
     ELSE IF hit \in DOMAIN s.objects
       THEN Call([s0 EXCEPT !.objects[hit].speed =
                    Abs(@ + alignment
                              * ImpulseSpeed(s.config.impulse, s.objects[hit].mass))],
                 "applyImpulse", s.objects[hit].body[2])
       ELSE s0

-----------------------------------------------------------------------------
(* the frame loop and the setup callback *)

\* the test made on the count of frames finished, not of frames begun
vectorsDue_afterIncrement(s) == (s.frameCount + 1) % VectorPeriod = 0

\* if (this.frameCount % 10 === 0)
vectorsDue(s) == s.frameCount % VectorPeriod = 0

\* one run of animate(), which measures `duration` between its two clock reads
animate(s, duration, phys) ==
  LET s0 == Call(s, "animate", s.frameCount)
      s1 == IF s0.isRunning
              THEN LET a == updatePhysics(s0, phys)
                       b == [a EXCEPT !.simulationTime = @ + a.deltaTime]
                   IN IF vectorsDue(b) THEN updateVectors(b) ELSE b
              ELSE s0
      s2 == Call(s1, "render", 0)
      s3 == [s2 EXCEPT !.deltaTime = duration]
      s4 == updateUI(s3)
  IN [s4 EXCEPT !.frameCount = @ + 1]

Done(s, stepName) == [s EXCEPT !.setupDone = Append(@, stepName)]

setupScene(s) == Done([s EXCEPT !.scene = {}], "setupScene")

setupPhysics(s) == Done([s EXCEPT !.world = {}], "setupPhysics")

setupLighting(s) ==
  Done([s EXCEPT !.scene = @ \cup {<<"ambientLight", 0>>, <<"directionalLight", 0>>,
                                   <<"pointLight", 0>>}], "setupLighting")

setupGround(s) ==
  Done([s EXCEPT !.world = @ \cup {GroundBody},
                 !.scene = @ \cup {<<"groundMesh", 0>>, <<"gridHelper", 0>>}],
       "setupGround")

setupRobot(s) ==
  Done([s EXCEPT !.robot.baseRotationY = 0,
                 !.scene = @ \cup {<<"robotBase", 0>>}], "setupRobot")

setupEventListeners(s) == Done(s, "setupEventListeners")

\* startLoop() runs the first animate() itself
startLoop(s, duration) ==
  Done(animate(s, duration, <<>>), "startLoop")

hideLoadingScreen(s) == Done(s, "hideLoadingScreen")

\* The callback of init()'s setTimeout.  The first use of a library that is not
\* loaded throws a ReferenceError, which ends the callback: the try of init()
\* has been left by then.
setupCallback(s, three, cannon, duration) ==
  IF ~three THEN Call(s, "throw", 1)
  ELSE IF ~cannon THEN Call(setupScene(s), "throw", 2)
  ELSE hideLoadingScreen(startLoop(setupEventListeners(setupRobot(setupGround(
         setupLighting(setupPhysics(setupScene(s)))))), duration))

-----------------------------------------------------------------------------
(* Events *)

Ev(type, target) ==
  [type |-> type, target |-> target, code |-> "", ctrlKey |-> FALSE,
   checked |-> FALSE, value |-> 0]

\* setupEventListeners() has installed the handlers
Listening == "setupEventListeners" \in Range(setupDone)

\* startLoop() has asked for animation frames
Looping == "startLoop" \in Range(setupDone)

Handled(ev, s) ==
  /\ event' = ev
  /\ Becomes(s)
  /\ UNCHANGED <<hasTHREE, hasCANNON, initTimer>>

BodyStates == [position : Heights, speed : Speeds]

\* what the physics library can answer to a step; nothing to answer when no step
\* is made
PhysInputs(stepping) ==
  IF stepping THEN [DOMAIN objects -> BodyStates]
  ELSE {[i \in DOMAIN objects |->
           [position |-> objects[i].position, speed |-> objects[i].speed]]}

\* window.simulator = new IndustrialSimulator() on DOMContentLoaded
Init ==
  /\ hasTHREE \in BOOLEAN
  /\ hasCANNON \in BOOLEAN
  /\ initTimer = "pending"
  /\ event = Ev("DOMContentLoaded", "document")
  /\ scene = constructor(hasTHREE, hasCANNON).scene
  /\ world = constructor(hasTHREE, hasCANNON).world
  /\ objects = constructor(hasTHREE, hasCANNON).objects
  /\ vectors = constructor(hasTHREE, hasCANNON).vectors
  /\ isRunning = constructor(hasTHREE, hasCANNON).isRunning
  /\ deltaTime = constructor(hasTHREE, hasCANNON).deltaTime
  /\ simulationTime = constructor(hasTHREE, hasCANNON).simulationTime
  /\ frameCount = constructor(hasTHREE, hasCANNON).frameCount
  /\ config = constructor(hasTHREE, hasCANNON).config
  /\ robot = constructor(hasTHREE, hasCANNON).robot
  /\ stats = constructor(hasTHREE, hasCANNON).stats
  /\ showVelocityVectors = constructor(hasTHREE, hasCANNON).showVelocityVectors
  /\ showMomentumVectors = constructor(hasTHREE, hasCANNON).showMomentumVectors
  /\ alerts = constructor(hasTHREE, hasCANNON).alerts
  /\ setupDone = constructor(hasTHREE, hasCANNON).setupDone
  /\ calls = constructor(hasTHREE, hasCANNON).calls

\* the timer of init() fires
InitTimeout ==
  /\ initTimer = "pending"
  /\ initTimer' = "fired"
  /\ event' = Ev("timeout", "init")
  /\ \E duration \in FrameDurations :
       Becomes(setupCallback(This, hasTHREE, hasCANNON, duration))
  /\ UNCHANGED <<hasTHREE, hasCANNON>>

\* a click on one of the three spawn buttons, with at most cap objects alive
Spawn(target, cap) ==
  /\ Listening
  /\ Len(objects) < cap
  /\ Handled(Ev("click", target),
             CASE target = "addBox" -> addBox(This)
               [] target = "addSphere" -> addSphere(This)
               [] target = "addCylinder" -> addCylinder(This))

ClickAddBox == Spawn("addBox", MaxObjects)

ClickAddSphere == Spawn("addSphere", MaxObjects)

ClickAddCylinder == Spawn("addCylinder", MaxObjects)

ClickPlay == Listening /\ Handled(Ev("click", "playBtn"), play(This))

ClickPause == Listening /\ Handled(Ev("click", "pauseBtn"), pause(This))

ClickReset == Listening /\ Handled(Ev("click", "resetBtn"), reset(This))

\* a click on the step button, in a run of at most maxTime of simulated time
Step(maxTime) ==
  /\ Listening
  /\ isRunning \/ simulationTime + deltaTime <= maxTime
  /\ \E phys \in PhysInputs(~isRunning) :
       Handled(Ev("click", "stepBtn"), step(This, phys))

ClickStep == Step(MaxSimTime)

ClickActivateRobot ==
  Listening /\ Handled(Ev("click", "activateRobot"), toggleRobot(This))

ClickResetRobot ==
  Listening /\ Handled(Ev("click", "resetRobot"), resetRobot(This))

ClickOptimizeLayout ==
  /\ Listening
  /\ \E percent \in Percents :
       Handled(Ev("click", "optimizeLayout"), optimizeLayout(This, percent))

ClickOptimizeTrajectory ==
  /\ Listening
  /\ \E percent \in Percents :
       Handled(Ev("click", "optimizeTrajectory"), optimizeTrajectory(This, percent))

\* an input event on the slider of a setting or on its number field
SliderInput(prop) ==
  /\ Listening
  /\ \E field \in {"Slider", "Value"}, value \in SliderValues[prop] :
       Handled([Ev("input", prop \o field) EXCEPT !.value = value],
               sliderInput(This, prop, value))

RotationInput == SliderInput("rotation")

\* a click on the canvas, on the mesh of an object or beside them all, with no
\* body taken beyond maxSpeed
CanvasClick(maxSpeed) ==
  /\ Listening
  /\ \E hit \in 0..Len(objects), alignment \in Alignments :
       /\ hit \in DOMAIN objects =>
            objects[hit].speed + ImpulseSpeed(config.impulse, objects[hit].mass)
              <= maxSpeed
       /\ Handled(Ev("click", "canvas"), onCanvasClick(This, hit, alignment))

ChangeShowVelocity ==
  /\ Listening
  /\ \E checked \in BOOLEAN :
       Handled([Ev("change", "showVelocityVectors") EXCEPT !.checked = checked],
               changeVelocityVectors(This, checked))

ChangeShowMomentum ==
  /\ Listening
  /\ \E checked \in BOOLEAN :
       Handled([Ev("change", "showMomentumVectors") EXCEPT !.checked = checked],
               changeMomentumVectors(This, checked))

KeyDown ==
  /\ Listening
  /\ \E code \in KeyCodes, ctrlKey \in BOOLEAN, percent \in Percents :
       Handled([Ev("keydown", "document") EXCEPT !.code = code, !.ctrlKey = ctrlKey],
               onKeyPress(This, code, ctrlKey, percent))

\* one animation frame, in a run of at most maxFrames frames and maxTime of
\* simulated time
Frame(maxFrames, maxTime) ==
  /\ Looping
  /\ frameCount < maxFrames
  /\ isRunning => simulationTime + deltaTime <= maxTime
  /\ \E duration \in FrameDurations, phys \in PhysInputs(isRunning) :
       Handled(Ev("frame", "window"), animate(This, duration, phys))

AnimationFrame == Frame(MaxFrames, MaxSimTime)

\* The simulator with its spawn, run and display controls.
Next ==
  \/ InitTimeout
  \/ ClickAddBox
  \/ ClickAddSphere
  \/ ClickAddCylinder
  \/ ClickPlay
  \/ ClickPause
  \/ ClickReset
  \/ ClickStep
  \/ ChangeShowVelocity
  \/ ChangeShowMomentum
  \/ AnimationFrame

Spec == Init /\ [][Next]_vars

-----------------------------------------------------------------------------
(* Spawning many objects, the simulation paused *)

SpawnBox == Spawn("addBox", SpawnObjects)

SpawnSphere == Spawn("addSphere", SpawnObjects)

SpawnCylinder == Spawn("addCylinder", SpawnObjects)

PausedFrame == ~isRunning /\ Frame(SpawnFrames, 0)

NextSpawn ==
  \/ InitTimeout
  \/ SpawnBox
  \/ SpawnSphere
  \/ SpawnCylinder
  \/ ClickReset
  \/ PausedFrame

SpecSpawn == Init /\ [][NextSpawn]_vars

-----------------------------------------------------------------------------
(* The keyboard shortcuts and reset, with the robot and the arrows in use *)

ControlAddBox == Spawn("addBox", ControlObjects)

ControlFrame == Frame(ControlFrames, ControlSimTime)

NextControls ==
  \/ InitTimeout
  \/ ControlAddBox
  \/ ClickPlay
  \/ ClickPause
  \/ ClickReset
  \/ ClickActivateRobot
  \/ ClickOptimizeLayout
  \/ ClickOptimizeTrajectory
  \/ ChangeShowVelocity
  \/ KeyDown
  \/ ControlFrame

SpecControls == Init /\ [][NextControls]_vars

-----------------------------------------------------------------------------
(* The robot: its two buttons, the rotation slider, and the physics updates *)
(* of the step button and of running frames that turn it                    *)

RobotStep == Step(RobotSimTime)

RobotFrame == Frame(RobotFrames, RobotSimTime)

NextRobot ==
  \/ InitTimeout
  \/ ClickPlay
  \/ ClickPause
  \/ ClickActivateRobot
  \/ ClickResetRobot
  \/ RotationInput
  \/ RobotStep
  \/ RobotFrame

SpecRobot == Init /\ [][NextRobot]_vars

-----------------------------------------------------------------------------
(* The frame loop alone, over more than two vector periods *)

LoopAddBox == Spawn("addBox", LoopObjects)

LoopFrame == Frame(LoopFrames, LoopSimTime)

NextLoop ==
  \/ InitTimeout
  \/ LoopAddBox
  \/ ClickPlay
  \/ ClickPause
  \/ LoopFrame

SpecLoop == Init /\ [][NextLoop]_vars

-----------------------------------------------------------------------------
(* The step button and the frame loop, with the robot in use *)

StepAddBox == Spawn("addBox", StepObjects)

StepClick == Step(StepSimTime)

StepFrame == Frame(StepFrames, StepSimTime)

NextStep ==
  \/ InitTimeout
  \/ StepAddBox
  \/ ClickPlay
  \/ ClickPause
  \/ StepClick
  \/ ClickActivateRobot
  \/ StepFrame

SpecStep == Init /\ [][NextStep]_vars

-----------------------------------------------------------------------------
(* The sliders, their number fields and the clicks on the canvas *)

InputsAddBox == Spawn("addBox", InputsObjects)

MassInput == SliderInput("mass")

FrictionInput == SliderInput("friction")

GravityInput == SliderInput("gravity")

RestitutionInput == SliderInput("restitution")

ImpulseInput == SliderInput("impulse")

AngularVelocityInput == SliderInput("angularVelocity")

ClickCanvas == CanvasClick(InputsSpeed)

NextInputs ==
  \/ InitTimeout
  \/ InputsAddBox
  \/ ClickPlay
  \/ ClickPause
  \/ MassInput
  \/ FrictionInput
  \/ GravityInput
  \/ RestitutionInput
  \/ ImpulseInput
  \/ AngularVelocityInput
  \/ ClickCanvas

SpecInputs == Init /\ [][NextInputs]_vars

-----------------------------------------------------------------------------
(* What the claims speak of *)

\* the last handler called fn
Called(fn) == \E i \in DOMAIN calls : calls[i][1] = fn

SpawnTargets == {"addBox", "addSphere", "addCylinder"}

\* the handles of one kind among a set of handles
OfKind(handles, kind) == {h \in handles : h[1] = kind}

\* an entry pairs a body that is in the world with a mesh that is in the scene
PairedEntry(obj, w, sc) ==
  /\ obj.body[1] = "body"
  /\ obj.mesh[1] = "mesh"
  /\ obj.body \in w
  /\ obj.mesh \in sc

\* the fields of the simulator other than isRunning are left as they are
OnlyIsRunningChanges ==
  UNCHANGED <<scene, world, objects, vectors, deltaTime, simulationTime,
              frameCount, config, robot, stats, showVelocityVectors,
              showMomentumVectors, alerts, setupDone>>

SimulatorUnchanged == OnlyIsRunningChanges /\ UNCHANGED isRunning

\* where and how long the arrows of one type are, in list order
ArrowsOfType(vecs, type) ==
  LET ofType(v) == v.type = type
      sel == SelectSeq(vecs, ofType)
  IN [i \in DOMAIN sel |-> <<sel[i].origin, sel[i].length>>]

\* the positions of the objects an arrow is drawn for, in list order
MovingPositions(objs) ==
  LET moving(o) == o.speed > SpeedThreshold
      sel == SelectSeq(objs, moving)
  IN [i \in DOMAIN sel |-> sel[i].position]

ArrowOrigins(vecs, type) ==
  LET ofType(v) == v.type = type
      sel == SelectSeq(vecs, ofType)
  IN [i \in DOMAIN sel |-> sel[i].origin]

-----------------------------------------------------------------------------
(* C1 *)

\* C1: every call of addBox, addSphere or addCylinder appends exactly one entry to
\* the objects list and leaves the earlier entries in place, the new entry and all
\* earlier ones pairing a body that is in the world with a mesh that is in the
\* scene; nothing but a spawn or a reset changes the length of the list.  So N
\* spawns after an empty list, with no reset between, leave exactly N such entries.
C1_SpawnAppendsOnePair ==
  [][/\ (event'.type = "click" /\ event'.target \in SpawnTargets) =>
          /\ Len(objects') = Len(objects) + 1
          /\ SubSeq(objects', 1, Len(objects)) = objects
          /\ \A i \in DOMAIN objects' : PairedEntry(objects'[i], world', scene')
          /\ objects'[Len(objects')].type =
               CASE event'.target = "addBox" -> "box"
                 [] event'.target = "addSphere" -> "sphere"
                 [] event'.target = "addCylinder" -> "cylinder"
     /\ (event'.target \notin SpawnTargets /\ event'.target # "resetBtn") =>
          Len(objects') = Len(objects)]_vars

\* three spawns of three different kinds have been made, the last a cylinder
C1_Witness ==
  /\ event.target = "addCylinder"
  /\ Len(objects) = 3
  /\ {objects[i].type : i \in DOMAIN objects} = {"box", "sphere", "cylinder"}
  /\ \A i \in DOMAIN objects : PairedEntry(objects[i], world, scene)

-----------------------------------------------------------------------------
(* C2 *)

\* C2: after reset() the objects list and the vectors list are empty, no mesh and no
\* arrow is in the scene, no spawned body is in the world, and each of the nine fields
\* of the statistics record is the number 0.
C2_ResetClears ==
  Called("reset") =>
    /\ objects = <<>>
    /\ vectors = <<>>
    /\ OfKind(scene, "mesh") = {}
    /\ OfKind(scene, "arrow") = {}
    /\ OfKind(world, "body") = {}
    /\ DOMAIN stats = {"activeObjects", "collisionCount", "totalEnergy",
                       "maxVelocity", "avgVelocity", "currentAngle",
                       "angularAcceleration", "damageReduction",
                       "trajectoryEfficiency"}
    /\ \A f \in DOMAIN stats : stats[f] = Number(0)

\* a reset that took a mesh, a body and an arrow away
C2_Witness ==
  /\ Called("reset")
  /\ Called("scene.remove(mesh)")
  /\ Called("world.remove")
  /\ Called("scene.remove(arrow)")

-----------------------------------------------------------------------------
(* C3 *)

\* C3: in every state the bodies in the world are the bodies of the entries of the
\* objects list, the meshes in the scene are the meshes of those entries, and every
\* entry holds the body and the mesh that were made together: a body is in the world
\* exactly when its mesh is in the scene, and exactly when the pair is in the list.
C3_BodyAndMeshTogether ==
  /\ OfKind(world, "body") = {objects[i].body : i \in DOMAIN objects}
  /\ OfKind(scene, "mesh") = {objects[i].mesh : i \in DOMAIN objects}
  /\ \A i \in DOMAIN objects : objects[i].body[2] = objects[i].mesh[2]
  /\ \A i, j \in DOMAIN objects : objects[i].body = objects[j].body => i = j

\* a running frame has stepped a world that holds a spawned body
C3_Witness ==
  /\ event.type = "frame"
  /\ Called("world.step")
  /\ objects # <<>>
  /\ \A i \in DOMAIN objects : PairedEntry(objects[i], world, scene)

-----------------------------------------------------------------------------
(* C4 *)

\* C4 (as claimed): every world.step made by the frame callback is given the nominal
\* step of 1/60 s.
C4_FixedStep ==
  event.type = "frame" =>
    \A i \in DOMAIN calls :
      calls[i][1] = "world.step" => calls[i][2] = NominalDeltaTime

-----------------------------------------------------------------------------
(* C5 *)

\* C5: a call of updateRobot() with the robot active takes currentAngle no farther
\* from the target angle the rotation setting gives, and not across it.
C5_RobotApproaches ==
  [][((\E i \in DOMAIN calls' : calls'[i][1] = "updateRobot") /\ robot.isActive) =>
       /\ robot'.targetAngle = Radians(config.rotation)
       /\ Abs(robot'.targetAngle - robot'.currentAngle)
            <= Abs(robot'.targetAngle - robot.currentAngle)
       /\ robot'.targetAngle >= robot.currentAngle
            => robot'.targetAngle >= robot'.currentAngle
       /\ robot'.targetAngle <= robot.currentAngle
            => robot'.targetAngle <= robot'.currentAngle]_vars

\* the robot, part of the way to 45 degrees, has been turned back towards -90
C5_Witness ==
  /\ Called("updateRobot")
  /\ robot.isActive
  /\ config.rotation = -90
  /\ robot.targetAngle = Radians(-90)
  /\ robot.currentAngle > 0
  /\ robot.currentAngle < Radians(45)

-----------------------------------------------------------------------------
(* C6 *)

OtherType(target) ==
  IF target = "showVelocityVectors" THEN "momentum" ELSE "velocity"

\* C6 (as claimed): the change handler of a checkbox leaves the arrows of the other
\* type as they were (the same places and lengths, in the same order) and moves no
\* body and no mesh.
C6_OnlyOwnArrowsChange ==
  [][event'.type = "change" =>
       /\ ArrowsOfType(vectors', OtherType(event'.target))
            = ArrowsOfType(vectors, OtherType(event'.target))
       /\ objects' = objects]_vars

\* C6 (amended): the change handler of a checkbox sets its own flag to the state of
\* the checkbox, leaves the other flag alone and rebuilds the whole list from the
\* bodies as they are now: for each type whose flag is set the list then holds one
\* arrow at the position of every object faster than 0.1 m/s, for a type whose flag
\* is clear it holds none, and the arrows in the scene are those of the list.  No
\* body and no mesh moves.
C6_ListRebuiltFromFlags ==
  [][event'.type = "change" =>
       /\ event'.target = "showVelocityVectors" =>
            /\ showVelocityVectors' = event'.checked
            /\ showMomentumVectors' = showMomentumVectors
       /\ event'.target = "showMomentumVectors" =>
            /\ showMomentumVectors' = event'.checked
            /\ showVelocityVectors' = showVelocityVectors
       /\ ArrowOrigins(vectors', "velocity") =
            (IF showVelocityVectors' THEN MovingPositions(objects) ELSE <<>>)
       /\ ArrowOrigins(vectors', "momentum") =
            (IF showMomentumVectors' THEN MovingPositions(objects) ELSE <<>>)
       /\ OfKind(scene', "arrow") = {vectors'[i].arrow : i \in DOMAIN vectors'}
       /\ Cardinality(OfKind(scene', "arrow")) = Len(vectors')
       /\ objects' = objects]_vars

\* the velocity checkbox has been cleared and the list holds momentum arrows only
C6_Witness ==
  /\ event.type = "change"
  /\ event.target = "showVelocityVectors"
  /\ ~event.checked
  /\ vectors # <<>>
  /\ \A i \in DOMAIN vectors : vectors[i].type = "momentum"
  /\ ~showVelocityVectors
  /\ showMomentumVectors

-----------------------------------------------------------------------------
(* C7 *)

\* C7: play() and pause() set isRunning, to TRUE and to FALSE, and change no other
\* field of the simulator: the objects list keeps its entries and their order.
C7_PlayPauseOnlyIsRunning ==
  [][(event'.type = "click" /\ event'.target \in {"playBtn", "pauseBtn"}) =>
       /\ isRunning' = (event'.target = "playBtn")
       /\ OnlyIsRunningChanges]_vars

\* a pause of a running simulation that holds an object and has run for a while
C7_Witness ==
  /\ event.target = "pauseBtn"
  /\ ~isRunning
  /\ Called("pause")
  /\ objects # <<>>
  /\ simulationTime > 0
  /\ vectors # <<>>

-----------------------------------------------------------------------------
(* C8 *)

\* C8: a run of the frame callback recreates the arrows exactly when the simulation
\* is running and the frame counter, as the callback found it, is a multiple of 10.
C8_VectorsEveryTenthFrame ==
  (Looping /\ event.type \in {"frame", "timeout"}) =>
    (Called("updateVectors") <=>
       (isRunning /\ (frameCount - 1) % 10 = 0))

\* frame 20 ran with the simulation running and made arrows
C8_Witness ==
  /\ event.type = "frame"
  /\ frameCount = 21
  /\ isRunning
  /\ Called("updateVectors")
  /\ vectors # <<>>

-----------------------------------------------------------------------------
(* C9 *)

\* C9: a Space keydown inverts isRunning and changes nothing else; KeyR, KeyO and
\* KeyT with Ctrl held do what reset(), optimizeLayout() and optimizeTrajectory()
\* do; without Ctrl these keys, and every other key, change nothing.
C9_KeyboardShortcuts ==
  [][event'.type = "keydown" =>
       CASE event'.code = "Space" ->
              isRunning' = ~isRunning /\ OnlyIsRunningChanges
         [] event'.code = "KeyR" /\ event'.ctrlKey ->
              Becomes(reset(This))
         [] event'.code = "KeyO" /\ event'.ctrlKey ->
              /\ Called("optimizeLayout")'
              /\ \E percent \in 70..99 :
                   stats' = [stats EXCEPT !.damageReduction = Number(percent)]
              /\ UNCHANGED <<scene, world, objects, vectors, isRunning, deltaTime,
                             simulationTime, frameCount, config, robot,
                             showVelocityVectors, showMomentumVectors>>
         [] event'.code = "KeyT" /\ event'.ctrlKey ->
              /\ Called("optimizeTrajectory")'
              /\ \E percent \in 70..99 :
                   stats' = [stats EXCEPT !.trajectoryEfficiency = Number(percent)]
              /\ UNCHANGED <<scene, world, objects, vectors, isRunning, deltaTime,
                             simulationTime, frameCount, config, robot,
                             showVelocityVectors, showMomentumVectors>>
         [] OTHER -> SimulatorUnchanged /\ calls' = <<>>]_vars

\* Ctrl+R has reset a simulation that held an object
C9_Witness ==
  /\ event.type = "keydown"
  /\ event.code = "KeyR"
  /\ event.ctrlKey
  /\ Called("reset")
  /\ Called("world.remove")
  /\ objects = <<>>

-----------------------------------------------------------------------------
(* C10 *)

MissingDependency == ~(hasTHREE /\ hasCANNON)

\* C10 (as claimed): with a library missing there is one alert, init() is called, and
\* its callback completes every setup step, as it does with both libraries loaded.
C10_SetupRunsRegardless ==
  MissingDependency =>
    /\ alerts = 1
    /\ initTimer = "fired" => setupDone = SetupSteps

\* C10 (amended): with a library missing there is one alert and init() is called and
\* schedules its callback all the same; the callback runs the setup steps up to the
\* first one that uses the missing library, which throws: none with Three.js missing,
\* setupScene alone with only Cannon.js missing.  The handlers are never installed
\* and the loop never starts.
C10_SetupStopsAtMissingLibrary ==
  MissingDependency =>
    /\ alerts = 1
    /\ initTimer = "pending" => (Called("init") /\ Called("setTimeout"))
    /\ initTimer = "fired" =>
         /\ setupDone = (IF hasTHREE THEN <<"setupScene">> ELSE <<>>)
         /\ Called("throw")
         /\ world = NULL
         /\ ~Listening
         /\ ~Looping
         /\ frameCount = 0

\* Cannon.js is missing and the callback has stopped after setupScene
C10_Witness ==
  /\ hasTHREE
  /\ ~hasCANNON
  /\ initTimer = "fired"
  /\ alerts = 1
  /\ setupDone = <<"setupScene">>
  /\ scene = {}

-----------------------------------------------------------------------------
(* C11 *)

\* how often the last handler called fn
TimesCalled(cs, fn) ==
  Cardinality({i \in DOMAIN cs : cs[i][1] = fn})

\* C11: a click on the step button changes nothing while the simulation is running;
\* while it is paused the click makes one world.step with the current deltaTime,
\* copies every body's position to its mesh, updates the robot once if it is active
\* and adds the current deltaTime to simulationTime.  An animation frame of a paused
\* simulation makes no world.step and leaves simulationTime, the objects and the
\* robot as they were.
C11_StepOnlyWhilePaused ==
  [][/\ (event'.target = "stepBtn" /\ isRunning) => SimulatorUnchanged
     /\ (event'.target = "stepBtn" /\ ~isRunning) =>
          /\ TimesCalled(calls', "world.step") = 1
          /\ \A i \in DOMAIN calls' :
               calls'[i][1] = "world.step" => calls'[i][2] = deltaTime
          /\ simulationTime' = simulationTime + deltaTime
          /\ Len(objects') = Len(objects)
          /\ \A i \in DOMAIN objects' :
               objects'[i].meshPosition = objects'[i].position
          /\ TimesCalled(calls', "updateRobot") = (IF robot.isActive THEN 1 ELSE 0)
          /\ robot'.currentAngle =
               (IF robot.isActive
                  THEN robot.currentAngle
                         + RoundDiv((Radians(config.rotation) - robot.currentAngle)
                                      * BlendPercent, 100)
                  ELSE robot.currentAngle)
          /\ UNCHANGED <<isRunning, deltaTime, frameCount, scene, world, vectors>>
     /\ (event'.type = "frame" /\ ~isRunning) =>
          /\ TimesCalled(calls', "world.step") = 0
          /\ UNCHANGED <<simulationTime, objects, robot>>]_vars

\* a second step of a paused simulation that holds a moved object and a turning
\* robot
C11_Witness ==
  /\ event.target = "stepBtn"
  /\ ~isRunning
  /\ Called("world.step")
  /\ Called("updateRobot")
  /\ simulationTime = 2 * deltaTime
  /\ deltaTime > 0
  /\ objects # <<>>
  /\ robot.currentAngle > 0

-----------------------------------------------------------------------------
(* C12 *)

\* C12: in every state stats.activeObjects is the length of the objects list,
\* whatever spawns, resets, frames and optimize actions have run.
C12_ActiveObjectsIsLength ==
  stats.activeObjects = Number(Len(objects))

\* an optimize action on a simulator whose list holds a spawned object that the
\* frame callback has already counted
C12_Witness ==
  /\ Called("optimizeLayout")
  /\ Len(objects) = 1
  /\ stats.activeObjects = Number(1)
  /\ stats.damageReduction # Number(0)
  /\ stats.maxVelocity # Number(0)

-----------------------------------------------------------------------------
(* C13 *)

\* C13 (as claimed): whenever the frame callback has rendered, the mesh of every
\* entry of the objects list is where its body is, also when the entry was spawned
\* while the simulation was paused.
C13_MeshAtBodyOnRender ==
  (event.type = "frame" /\ Called("render")) =>
    \A i \in DOMAIN objects : objects[i].meshPosition = objects[i].position

-----------------------------------------------------------------------------
(* C14 *)

\* C14 (as claimed): in every state robot.base.rotation.y is robot.currentAngle and
\* stats.currentAngle is robot.currentAngle in degrees; after resetRobot() all
\* three are 0.
C14_RobotDisplayAgrees ==
  /\ robot.baseRotationY = robot.currentAngle
  /\ stats.currentAngle[2] = DegreesFixed1(robot.currentAngle)[2]

====
